---- MODULE Spec2Model ----
(***************************************************************************)
(* Model of validate(schemas, controller) of express-zod-validator         *)
(* (src/packages/idol51-express-zod-validator/src/validate.ts).            *)
(*                                                                         *)
(* One request handler, returned by validate, is shared by all the         *)
(* invocations; every invocation has its own request, response and next.   *)
(* An invocation is followed statement by statement: the three parse       *)
(* blocks, the call of the controller, the await, the catch clause, and in *)
(* it res.status(400), .json(...) or next(error).                          *)
(*                                                                         *)
(* JavaScript values are records [t, v] (t the type tag), so that a        *)
(* number and the string it was parsed from are different values.          *)
(***************************************************************************)
EXTENDS Naturals, Sequences, FiniteSets, TLC

\* Number of invocations of the request handler that may be in flight.
NumInvocations == 2

Ids == 1..NumInvocations

Sections == <<"body", "query", "params">>

SectionSet == {"body", "query", "params"}

\* ------------------------------------------------------------------------
\* JavaScript values
\* ------------------------------------------------------------------------
Undefined == [t |-> "undefined", v |-> ""]

Str(s) == [t |-> "string", v |-> s]

Num(s) == [t |-> "number", v |-> s]

\* What a request section may hold in this model.
RawValues == {Undefined, Str(""), Str("abc"), Str("12")}

\* ------------------------------------------------------------------------
\* Errors
\* ------------------------------------------------------------------------
NoError == [kind |-> "none", msgs |-> <<>>]

\* new ZodError(issues): error.errors is the list of issues, each with a message.
ZodErr(m) == [kind |-> "ZodError", msgs |-> m]

\* Any other throwable; msgs holds its single message.
OtherErr(k, m) == [kind |-> k, msgs |-> <<m>>]

\* error instanceof ZodError
IsZodError(e) == e.kind = "ZodError"

\* ------------------------------------------------------------------------
\* Schemas: the zod schemas a route may pass.  NoSchema is an absent field.
\*   "name" : z.string().min(1)
\*   "id"   : z.string().min(1).regex(/^\d+$/).transform(Number)
\*   "boom" : z.string().optional().transform(f), f throwing a TypeError
\*            on "abc" and returning its argument otherwise
\* ------------------------------------------------------------------------
NoSchema == "none"

SchemaKinds == {"name", "id", "boom"}

SchemaSets == [SectionSet -> SchemaKinds \cup {NoSchema}]

Ok(v) == [ok |-> TRUE, value |-> v, error |-> NoError]

Fail(e) == [ok |-> FALSE, value |-> Undefined, error |-> e]

\* schema.parse(raw): the parsed value, or the error it throws.
Parse(schema, raw) ==
  CASE schema = "name" ->
         IF raw = Undefined THEN Fail(ZodErr(<<"Required">>))
         ELSE IF raw = Str("") THEN Fail(ZodErr(<<"Too short">>))
         ELSE Ok(raw)
    [] schema = "id" ->
         IF raw = Undefined THEN Fail(ZodErr(<<"Required">>))
         ELSE IF raw = Str("") THEN Fail(ZodErr(<<"Too short", "Invalid">>))
         ELSE IF raw = Str("12") THEN Ok(Num(raw.v))
         ELSE Fail(ZodErr(<<"Invalid">>))
    [] schema = "boom" ->
         IF raw = Str("abc") THEN Fail(OtherErr("TypeError", "Invalid"))
         ELSE Ok(raw)

\* ------------------------------------------------------------------------
\* error.errors.map((e) => e.message).join(", ")
\* ------------------------------------------------------------------------
RECURSIVE JoinWith(_, _)
JoinWith(msgs, sep) ==
  IF msgs = <<>> THEN ""
  ELSE IF Len(msgs) = 1 THEN msgs[1]
  ELSE msgs[1] \o sep \o JoinWith(Tail(msgs), sep)

RECURSIVE Reverse(_)
Reverse(s) == IF s = <<>> THEN <<>> ELSE Append(Reverse(Tail(s)), s[1])

\* Mutant of Formatted: the messages are joined last first.
FormattedReversed(e) == JoinWith(Reverse(e.msgs), ", ")

Formatted(e) == JoinWith(e.msgs, ", ")

\* The object passed to res.json.
Envelope(message) == [status |-> "error", message |-> message]

NoBody == [status |-> "", message |-> ""]

\* The slot of the request a section's parsed value is stored in.
SlotOf(section) ==
  CASE section = "body" -> "validatedData"
    [] section = "query" -> "validatedQuery"
    [] section = "params" -> "validatedParams"

\* ------------------------------------------------------------------------
\* State
\* ------------------------------------------------------------------------
VARIABLES
  schemas,     \* the schema set captured by the request handler
  pc,          \* per invocation: the statement it is at
  req,         \* per invocation: the request object
  res,         \* per invocation: what the dispatcher did to the response
  error,       \* per invocation: the error caught by the catch clause
  raisedBy,    \* per invocation: who raised it (a section, "controller")
  parsed,      \* per invocation: the sections parse was called on, in order
  writes,      \* per invocation: number of assignments to each slot
  ctrl,        \* per invocation: calls of the controller, the request it saw
  nextArgs,    \* per invocation: the arguments of the dispatcher's next calls
  escaped      \* per invocation: the error the handler's promise rejected with

vars == <<schemas, pc, req, res, error, raisedBy, parsed, writes, ctrl,
          nextArgs, escaped>>

Request(b, q, p) ==
  [body |-> b, query |-> q, params |-> p,
   validatedData |-> Undefined, validatedQuery |-> Undefined,
   validatedParams |-> Undefined]

Requests == {Request(b, q, p) : b \in RawValues, q \in RawValues, p \in RawValues}

NoWrites == [s \in SectionSet |-> 0]

NoCall == [calls |-> 0, req |-> Request(Undefined, Undefined, Undefined),
           writes |-> NoWrites, outcome |-> "none"]

FreshResponse == [statusCode |-> 0, body |-> NoBody, jsonCalls |-> 0]

\* Errors a controller may raise: one of each kind, with the same message.
ControllerErrors == {OtherErr("Error", "Required"), ZodErr(<<"Required">>)}

\* What res.status or res.json throws when the response cannot be written.
ResponseError == OtherErr("Error", "ERR_HTTP_HEADERS_SENT")

InitWith(S, R, active) ==
  /\ schemas \in S
  /\ req \in [Ids -> R]
  /\ \A i \in Ids : i \notin active => req[i] = Request(Undefined, Undefined, Undefined)
  /\ pc = [i \in Ids |-> IF i \in active THEN "body" ELSE "idle"]
  /\ res = [i \in Ids |-> FreshResponse]
  /\ error = [i \in Ids |-> NoError]
  /\ raisedBy = [i \in Ids |-> "none"]
  /\ parsed = [i \in Ids |-> <<>>]
  /\ writes = [i \in Ids |-> NoWrites]
  /\ ctrl = [i \in Ids |-> NoCall]
  /\ nextArgs = [i \in Ids |-> <<>>]
  /\ escaped = [i \in Ids |-> NoError]

\* One request is handled.
Init == InitWith(SchemaSets, Requests, {1})

\* ------------------------------------------------------------------------
\* The request handler, statement by statement
\* ------------------------------------------------------------------------
\* Mutant of ParseSection: a failed parse is recorded but the handler goes on.
ParseSectionContinue(i, section, nextPc) ==
  /\ pc[i] = section
  /\ IF schemas[section] = NoSchema
     THEN /\ pc' = [pc EXCEPT ![i] = nextPc]
          /\ UNCHANGED <<req, error, raisedBy, parsed, writes>>
     ELSE LET r == Parse(schemas[section], req[i][section]) IN
          /\ parsed' = [parsed EXCEPT ![i] = Append(@, section)]
          /\ IF r.ok
             THEN /\ req' = [req EXCEPT ![i][SlotOf(section)] = r.value]
                  /\ writes' = [writes EXCEPT ![i][section] = @ + 1]
                  /\ pc' = [pc EXCEPT ![i] = nextPc]
                  /\ UNCHANGED <<error, raisedBy>>
             ELSE /\ error' = [error EXCEPT ![i] = r.error]
                  /\ raisedBy' = [raisedBy EXCEPT ![i] = section]
                  /\ pc' = [pc EXCEPT ![i] = IF nextPc = "call" THEN "catch" ELSE nextPc]
                  /\ UNCHANGED <<req, writes>>
  /\ UNCHANGED <<schemas, res, ctrl, nextArgs, escaped>>

\* Mutant of ParseSection: the slot receives the raw section, not the parsed value.
ParseSectionStoreRaw(i, section, nextPc) ==
  /\ pc[i] = section
  /\ IF schemas[section] = NoSchema
     THEN /\ pc' = [pc EXCEPT ![i] = nextPc]
          /\ UNCHANGED <<req, error, raisedBy, parsed, writes>>
     ELSE LET r == Parse(schemas[section], req[i][section]) IN
          /\ parsed' = [parsed EXCEPT ![i] = Append(@, section)]
          /\ IF r.ok
             THEN /\ req' = [req EXCEPT ![i][SlotOf(section)] = req[i][section]]
                  /\ writes' = [writes EXCEPT ![i][section] = @ + 1]
                  /\ pc' = [pc EXCEPT ![i] = nextPc]
                  /\ UNCHANGED <<error, raisedBy>>
             ELSE /\ error' = [error EXCEPT ![i] = r.error]
                  /\ raisedBy' = [raisedBy EXCEPT ![i] = section]
                  /\ pc' = [pc EXCEPT ![i] = "catch"]
                  /\ UNCHANGED <<req, writes>>
  /\ UNCHANGED <<schemas, res, ctrl, nextArgs, escaped>>

\* Mutant of ParseSection: the parsed value is stored on every request in flight
\* (a slot kept in the closure instead of on the request).
ParseSectionShared(i, section, nextPc) ==
  /\ pc[i] = section
  /\ IF schemas[section] = NoSchema
     THEN /\ pc' = [pc EXCEPT ![i] = nextPc]
          /\ UNCHANGED <<req, error, raisedBy, parsed, writes>>
     ELSE LET r == Parse(schemas[section], req[i][section]) IN
          /\ parsed' = [parsed EXCEPT ![i] = Append(@, section)]
          /\ IF r.ok
             THEN /\ req' = [j \in Ids |->
                              IF pc[j] = "idle" THEN req[j]
                              ELSE [req[j] EXCEPT ![SlotOf(section)] = r.value]]
                  /\ writes' = [writes EXCEPT ![i][section] = @ + 1]
                  /\ pc' = [pc EXCEPT ![i] = nextPc]
                  /\ UNCHANGED <<error, raisedBy>>
             ELSE /\ error' = [error EXCEPT ![i] = r.error]
                  /\ raisedBy' = [raisedBy EXCEPT ![i] = section]
                  /\ pc' = [pc EXCEPT ![i] = "catch"]
                  /\ UNCHANGED <<req, writes>>
  /\ UNCHANGED <<schemas, res, ctrl, nextArgs, escaped>>

\* if (schemas.X) { const parsedX = schemas.X.parse(req.X); req.slot = parsedX; }
ParseSection(i, section, nextPc) ==
  /\ pc[i] = section
  /\ IF schemas[section] = NoSchema
     THEN /\ pc' = [pc EXCEPT ![i] = nextPc]
          /\ UNCHANGED <<req, error, raisedBy, parsed, writes>>
     ELSE LET r == Parse(schemas[section], req[i][section]) IN
          /\ parsed' = [parsed EXCEPT ![i] = Append(@, section)]
          /\ IF r.ok
             THEN /\ req' = [req EXCEPT ![i][SlotOf(section)] = r.value]
                  /\ writes' = [writes EXCEPT ![i][section] = @ + 1]
                  /\ pc' = [pc EXCEPT ![i] = nextPc]
                  /\ UNCHANGED <<error, raisedBy>>
             ELSE /\ error' = [error EXCEPT ![i] = r.error]
                  /\ raisedBy' = [raisedBy EXCEPT ![i] = section]
                  /\ pc' = [pc EXCEPT ![i] = "catch"]
                  /\ UNCHANGED <<req, writes>>
  /\ UNCHANGED <<schemas, res, ctrl, nextArgs, escaped>>

ParseBody(i) == ParseSection(i, "body", "query")

ParseQuery(i) == ParseSection(i, "query", "params")

ParseParams(i) == ParseSection(i, "params", "call")

\* controller(req, res, next): it throws, or returns a value or a promise.
CallController(i) ==
  /\ pc[i] = "call"
  /\ \/ /\ \E o \in {"value", "promise"} :
             ctrl' = [ctrl EXCEPT ![i] = [calls |-> @.calls + 1, req |-> req[i],
                                          writes |-> writes[i], outcome |-> o]]
        /\ pc' = [pc EXCEPT ![i] = "await"]
        /\ UNCHANGED <<error, raisedBy>>
     \/ /\ \E e \in ControllerErrors :
             error' = [error EXCEPT ![i] = e]
        /\ ctrl' = [ctrl EXCEPT ![i] = [calls |-> @.calls + 1, req |-> req[i],
                                        writes |-> writes[i], outcome |-> "threw"]]
        /\ raisedBy' = [raisedBy EXCEPT ![i] = "controller"]
        /\ pc' = [pc EXCEPT ![i] = "catch"]
  /\ UNCHANGED <<schemas, req, res, parsed, writes, nextArgs, escaped>>

\* await: the returned value, or the settlement of the returned promise.
Await(i) ==
  /\ pc[i] = "await"
  /\ \/ /\ pc' = [pc EXCEPT ![i] = "done"]
        /\ ctrl' = [ctrl EXCEPT ![i].outcome = "fulfilled"]
        /\ UNCHANGED <<error, raisedBy>>
     \/ /\ ctrl[i].outcome = "promise"
        /\ \E e \in ControllerErrors :
             error' = [error EXCEPT ![i] = e]
        /\ ctrl' = [ctrl EXCEPT ![i].outcome = "rejected"]
        /\ raisedBy' = [raisedBy EXCEPT ![i] = "controller"]
        /\ pc' = [pc EXCEPT ![i] = "catch"]
  /\ UNCHANGED <<schemas, req, res, parsed, writes, nextArgs, escaped>>

\* Mutant of Catch: a validation failure is answered and the controller still runs.
CatchThenCall(i) ==
  /\ pc[i] = "catch"
  /\ pc' = [pc EXCEPT ![i] = IF raisedBy[i] = "controller"
                             THEN (IF IsZodError(error[i]) THEN "status" ELSE "next")
                             ELSE "call"]
  /\ UNCHANGED <<schemas, req, res, error, raisedBy, parsed, writes, ctrl,
                 nextArgs, escaped>>

\* catch (error) { if (error instanceof ZodError) ... else ... }
Catch(i) ==
  /\ pc[i] = "catch"
  /\ pc' = [pc EXCEPT ![i] = IF IsZodError(error[i]) THEN "status" ELSE "next"]
  /\ UNCHANGED <<schemas, req, res, error, raisedBy, parsed, writes, ctrl,
                 nextArgs, escaped>>

\* res.status(400): sets the status code, or throws.
ResStatus(i) ==
  /\ pc[i] = "status"
  /\ \/ /\ res' = [res EXCEPT ![i].statusCode = 400]
        /\ pc' = [pc EXCEPT ![i] = "json"]
        /\ UNCHANGED escaped
     \/ /\ escaped' = [escaped EXCEPT ![i] = ResponseError]
        /\ pc' = [pc EXCEPT ![i] = "rejected"]
        /\ UNCHANGED res
  /\ UNCHANGED <<schemas, req, error, raisedBy, parsed, writes, ctrl, nextArgs>>

\* Mutant of ResJson: the else is missing, next(error) follows the response.
ResJsonThenNext(i) ==
  /\ pc[i] = "json"
  /\ \/ /\ res' = [res EXCEPT ![i].body = Envelope(Formatted(error[i])),
                             ![i].jsonCalls = @ + 1]
        /\ pc' = [pc EXCEPT ![i] = "next"]
        /\ UNCHANGED escaped
     \/ /\ escaped' = [escaped EXCEPT ![i] = ResponseError]
        /\ pc' = [pc EXCEPT ![i] = "rejected"]
        /\ UNCHANGED res
  /\ UNCHANGED <<schemas, req, error, raisedBy, parsed, writes, ctrl, nextArgs>>

\* .json({ status: "error", message: formatted }): sends the body, or throws.
ResJson(i) ==
  /\ pc[i] = "json"
  /\ \/ /\ res' = [res EXCEPT ![i].body = Envelope(Formatted(error[i])),
                             ![i].jsonCalls = @ + 1]
        /\ pc' = [pc EXCEPT ![i] = "done"]
        /\ UNCHANGED escaped
     \/ /\ escaped' = [escaped EXCEPT ![i] = ResponseError]
        /\ pc' = [pc EXCEPT ![i] = "rejected"]
        /\ UNCHANGED res
  /\ UNCHANGED <<schemas, req, error, raisedBy, parsed, writes, ctrl, nextArgs>>

\* Mutant of CallNext: the error is wrapped in a new one.
CallNextWrapped(i) ==
  /\ pc[i] = "next"
  /\ nextArgs' = [nextArgs EXCEPT ![i] = Append(@, OtherErr("Error", "Internal"))]
  /\ pc' = [pc EXCEPT ![i] = "done"]
  /\ UNCHANGED <<schemas, req, res, error, raisedBy, parsed, writes, ctrl, escaped>>

\* next(error)
CallNext(i) ==
  /\ pc[i] = "next"
  /\ nextArgs' = [nextArgs EXCEPT ![i] = Append(@, error[i])]
  /\ pc' = [pc EXCEPT ![i] = "done"]
  /\ UNCHANGED <<schemas, req, res, error, raisedBy, parsed, writes, ctrl, escaped>>

Next ==
  \E i \in Ids :
    \/ ParseBody(i)
    \/ ParseQuery(i)
    \/ ParseParams(i)
    \/ CallController(i)
    \/ Await(i)
    \/ Catch(i)
    \/ ResStatus(i)
    \/ ResJson(i)
    \/ CallNext(i)

Spec == Init /\ [][Next]_vars

\* ------------------------------------------------------------------------
\* What the schema set says about a request, independently of the run
\* ------------------------------------------------------------------------
Idx(section) ==
  CASE section = "body" -> 1
    [] section = "query" -> 2
    [] section = "params" -> 3

Present(section) == schemas[section] # NoSchema

\* The present sections among the first k, in the order body, query, params.
PresentUpTo(k) == SelectSeq(SubSeq(Sections, 1, k), Present)

Outcome(i, section) == Parse(schemas[section], req[i][section])

Fails(i, section) == Present(section) /\ ~Outcome(i, section).ok

AllValid(i) == \A s \in SectionSet : ~Fails(i, s)

IsFirstFailing(i, section) ==
  /\ Fails(i, section)
  /\ \A t \in SectionSet : Idx(t) < Idx(section) => ~Fails(i, t)

Terminated(i) == pc[i] \in {"done", "rejected"}

\* A parse of one of the sections raised a validation error.
ValidationFailed(i) == raisedBy[i] \in SectionSet /\ IsZodError(error[i])

\* The dispatcher sent the 400 error envelope.
SentEnvelope(i) == res[i].jsonCalls > 0

\* ------------------------------------------------------------------------
\* C1: the controller is invoked if and only if every present schema parsed
\* its section successfully: never after a present schema failed, never before
\* all present schemas were parsed, at most once, and always (by the time the
\* invocation has terminated) when none failed.
\* ------------------------------------------------------------------------
C1_ControllerIffAllValid ==
  \A i \in Ids :
    /\ ctrl[i].calls <= 1
    /\ ctrl[i].calls = 1 => (AllValid(i) /\ parsed[i] = PresentUpTo(3))
    /\ raisedBy[i] \in SectionSet => ctrl[i].calls = 0
    /\ (Terminated(i) /\ AllValid(i)) => ctrl[i].calls = 1
    /\ (Terminated(i) /\ ~AllValid(i)) => ctrl[i].calls = 0

C1_Witness ==
  \E i \in Ids :
    /\ pc[i] = "done"
    /\ ctrl[i].calls = 1
    /\ \A s \in SectionSet : Present(s)
    /\ req[i].validatedParams = Num("12")

C3_FixedOrderFirstFailureWins ==
  \A i \in Ids :
    /\ Len(parsed[i]) <= Len(PresentUpTo(3))
    /\ parsed[i] = SubSeq(PresentUpTo(3), 1, Len(parsed[i]))
    /\ raisedBy[i] \in SectionSet =>
         /\ IsFirstFailing(i, raisedBy[i])
         /\ parsed[i] = PresentUpTo(Idx(raisedBy[i]))
         /\ \A s \in SectionSet :
              /\ Idx(s) >= Idx(raisedBy[i]) =>
                   (writes[i][s] = 0 /\ req[i][SlotOf(s)] = Undefined)
              /\ (Idx(s) < Idx(raisedBy[i]) /\ Present(s)) =>
                   (writes[i][s] = 1 /\ req[i][SlotOf(s)] = Outcome(i, s).value)
    /\ (Fails(i, "body") /\ Fails(i, "query")) =>
         /\ raisedBy[i] \in {"none", "body"}
         /\ "query" \notin {parsed[i][k] : k \in 1..Len(parsed[i])}
         /\ SentEnvelope(i) =>
              res[i].body.message = JoinWith(Outcome(i, "body").error.msgs, ", ")

C3_Witness ==
  \E i \in Ids :
    /\ pc[i] = "done"
    /\ schemas["body"] = "id" /\ req[i].validatedData = Num("12")
    /\ raisedBy[i] = "query"
    /\ Fails(i, "params")
    /\ SentEnvelope(i)

\* ------------------------------------------------------------------------
\* C4: when every present schema's input is valid the controller is invoked
\* exactly once, and when it is invoked the slot of every present schema
\* holds that schema's parsed output of its section; every slot is written
\* at most once, and never once the controller has started.
\* ------------------------------------------------------------------------
C4_SlotsHoldParsedOutput ==
  \A i \in Ids :
    /\ \A s \in SectionSet : writes[i][s] <= 1
    /\ ctrl[i].calls > 0 =>
         /\ ctrl[i].calls = 1
         /\ \A s \in SectionSet :
              /\ Present(s) =>
                   /\ ctrl[i].req[SlotOf(s)] = Outcome(i, s).value
                   /\ ctrl[i].writes[s] = 1
              /\ schemas[s] = "id" => ctrl[i].req[SlotOf(s)] = Num("12")
              /\ schemas[s] = "name" => ctrl[i].req[SlotOf(s)] = ctrl[i].req[s]
         /\ writes[i] = ctrl[i].writes
         /\ req[i] = ctrl[i].req
    /\ (Terminated(i) /\ AllValid(i)) => ctrl[i].calls = 1

C4_Witness ==
  \E i \in Ids :
    /\ pc[i] = "done"
    /\ ctrl[i].outcome = "fulfilled"
    /\ schemas = [body |-> "id", query |-> "name", params |-> "boom"]
    /\ ctrl[i].req.validatedData = Num("12")
    /\ ctrl[i].req.validatedQuery = Str("abc")
    /\ ctrl[i].req.validatedParams = Undefined
    /\ writes[i] = [s \in SectionSet |-> 1]

\* ------------------------------------------------------------------------
\* C5: any error raised by the controller, of whatever kind (a ZodError
\* included), goes to next(error) and never produces the dispatcher's 400
\* error envelope.
\* ------------------------------------------------------------------------
C5_ControllerErrorNeverValidationFailure ==
  \A i \in Ids :
    raisedBy[i] = "controller" =>
      /\ res[i] = FreshResponse
      /\ pc[i] \notin {"status", "json", "rejected"}
      /\ pc[i] = "done" => nextArgs[i] = <<error[i]>>

\* ------------------------------------------------------------------------
\* C6: if the controller raises a non-validation error, by throwing or by
\* rejecting the promise it returned, the dispatcher calls next exactly once,
\* with that same error value, and generates no response itself.
\* ------------------------------------------------------------------------
C6_ControllerErrorForwarded ==
  \A i \in Ids :
    (raisedBy[i] = "controller" /\ ~IsZodError(error[i])) =>
      /\ ctrl[i].outcome \in {"threw", "rejected"}
      /\ error[i] \in ControllerErrors
      /\ res[i] = FreshResponse
      /\ escaped[i] = NoError
      /\ pc[i] \in {"catch", "next", "done"}
      /\ pc[i] # "done" => nextArgs[i] = <<>>
      /\ pc[i] = "done" => nextArgs[i] = <<error[i]>>

C6_Witness ==
  \E i \in Ids :
    /\ pc[i] = "done"
    /\ ctrl[i].outcome = "rejected"
    /\ nextArgs[i] = <<OtherErr("Error", "Required")>>

\* ------------------------------------------------------------------------
\* C7: every error that is not a validation error and is raised by a schema's
\* parse, or by res.status or res.json while the 400 response is built, is
\* forwarded to next(error); none escapes the request handler; whether the
\* 400 path or the next path is taken depends on the kind of the error only.
\* ------------------------------------------------------------------------
C7_OtherErrorsForwarded ==
  \A i \in Ids :
    /\ escaped[i] = NoError
    /\ pc[i] # "rejected"
    /\ (pc[i] = "done" /\ raisedBy[i] \in SectionSet /\ ~IsZodError(error[i])) =>
         (nextArgs[i] = <<error[i]>> /\ res[i] = FreshResponse)
    /\ (pc[i] = "done" /\ raisedBy[i] \in SectionSet /\ IsZodError(error[i])) =>
         (nextArgs[i] = <<>> /\ SentEnvelope(i))

\* ------------------------------------------------------------------------
\* C8: the section of an absent schema is never parsed and its slot is never
\* written; with an empty schema set the controller is invoked exactly once,
\* with no slot populated, and the dispatcher sends no 400 response.
\* ------------------------------------------------------------------------
C8_AbsentSchemasPassThrough ==
  \A i \in Ids :
    /\ \A s \in SectionSet :
         ~Present(s) =>
           /\ s \notin {parsed[i][k] : k \in 1..Len(parsed[i])}
           /\ writes[i][s] = 0
           /\ req[i][SlotOf(s)] = Undefined
    /\ (\A s \in SectionSet : ~Present(s)) =>
         /\ res[i].statusCode # 400
         /\ ~SentEnvelope(i)
         /\ Terminated(i) => ctrl[i].calls = 1

ConcSchemaSets ==
  {[body |-> NoSchema, query |-> NoSchema, params |-> NoSchema],
   [body |-> "id", query |-> NoSchema, params |-> "id"],
   [body |-> "name", query |-> "boom", params |-> "id"]}

ConcRequests ==
  {Request(Str("12"), Str("12"), Str("12")),
   Request(Str(""), Str("abc"), Undefined),
   Request(Str("12"), Str("abc"), Str(""))}

\* Every invocation handles a request of its own; their steps interleave.
InitConc == InitWith(ConcSchemaSets, ConcRequests, Ids)

SpecConc == InitConc /\ [][Next]_vars

\* One invocation run alone from start to end on the raw request r under the
\* schema set S, ctlErr being what its controller raises (NoError: nothing)
\* and resThrows which of res.status, res.json throws ("none": neither).
AloneParse(S, st, section) ==
  IF st.error # NoError \/ S[section] = NoSchema THEN st
  ELSE LET r == Parse(S[section], st.req[section]) IN
       IF r.ok THEN [st EXCEPT !.req[SlotOf(section)] = r.value]
       ELSE [st EXCEPT !.error = r.error]

Alone(S, r, ctlErr, resThrows) ==
  LET p == AloneParse(S, AloneParse(S, AloneParse(S,
             [req |-> r, error |-> NoError], "body"), "query"), "params")
      e == IF p.error # NoError THEN p.error ELSE ctlErr
  IN  IF e = NoError
      THEN [req |-> p.req, res |-> FreshResponse, nextArgs |-> <<>>,
            escaped |-> NoError]
      ELSE IF ~IsZodError(e)
      THEN [req |-> p.req, res |-> FreshResponse, nextArgs |-> <<e>>,
            escaped |-> NoError]
      ELSE IF resThrows = "status"
      THEN [req |-> p.req, res |-> FreshResponse, nextArgs |-> <<>>,
            escaped |-> ResponseError]
      ELSE IF resThrows = "json"
      THEN [req |-> p.req, res |-> [FreshResponse EXCEPT !.statusCode = 400],
            nextArgs |-> <<>>, escaped |-> ResponseError]
      ELSE [req |-> p.req,
            res |-> [statusCode |-> 400, body |-> Envelope(JoinWith(e.msgs, ", ")),
                     jsonCalls |-> 1],
            nextArgs |-> <<>>, escaped |-> NoError]

\* What the environment of invocation i did: its controller, its response.
ControllerRaised(i) == IF raisedBy[i] = "controller" THEN error[i] ELSE NoError

ResThrew(i) ==
  IF pc[i] # "rejected" THEN "none"
  ELSE IF res[i].statusCode = 400 THEN "json" ELSE "status"

SameAsAlone(i) ==
  Terminated(i) =>
    [req |-> req[i], res |-> res[i], nextArgs |-> nextArgs[i],
     escaped |-> escaped[i]]
      = Alone(schemas, Request(req[i].body, req[i].query, req[i].params),
              ControllerRaised(i), ResThrew(i))

\* A step leaves alone the schema set and whatever belongs to an invocation
\* that is not the one taking the step.
OwnStateOnly ==
  /\ schemas' = schemas
  /\ \A j \in Ids :
       pc'[j] = pc[j] =>
         /\ req'[j] = req[j]
         /\ res'[j] = res[j]
         /\ nextArgs'[j] = nextArgs[j]
         /\ escaped'[j] = escaped[j]
         /\ writes'[j] = writes[j]

\* ------------------------------------------------------------------------
\* C10: however the steps of two invocations of the same request handler on
\* distinct request/response pairs interleave (one may be suspended awaiting
\* its controller), each ends with the slots, the response and the next call
\* it has when it runs alone on its own request; no step writes the request
\* or the response of the other invocation, and the schema set never changes.
\* ------------------------------------------------------------------------
C10_InvocationsIsolated ==
  /\ [](\A i \in Ids : SameAsAlone(i))
  /\ [][OwnStateOnly]_vars

C10_Witness ==
  /\ pc[1] = "await"
  /\ ctrl[1].outcome = "promise"
  /\ req[1].validatedData = Num("12")
  /\ pc[2] = "done"
  /\ res[2].body = Envelope("Too short, Invalid")
  /\ req[2].validatedData = Undefined
  /\ ctrl[2].calls = 0

====
